---- MODULE Spec2Model ----
(***************************************************************************)
(* Model of motion_curve_generator.py: the arc-length computation, the     *)
(* curve/eval_time construction and the two operators                      *)
(* POSE_OT_motion_path_to_curve and OBJECT_OT_transfer_curve_animation,    *)
(* acting on the host's data (bpy.data.curves / objects / actions).        *)
(*                                                                         *)
(* Numbers: coordinates are integers and the point set is chosen so that   *)
(* every distance between two points is an integer; Vector.length is then  *)
(* computed exactly.  Keyframe values are exact rationals [n, d] in lowest  *)
(* terms (floating-point rounding is not modelled).                        *)
(***************************************************************************)
EXTENDS Integers, Sequences, FiniteSets, TLC

VARIABLES
    bone_animation,      \* what the host's paths_calculate will sample for the bone
    motion_path,         \* selected_bone.motion_path (present or None)
    curves,              \* bpy.data.curves
    objects,             \* bpy.data.objects (all linked to the scene)
    actions,             \* bpy.data.actions
    cumulative_lengths,  \* locals of the last create_curve_from_motion_path call
    total_length,
    calls,               \* host calls made by the last POSE_OT run, in order
    result               \* outcome of the last operator run

vars == <<bone_animation, motion_path, curves, objects, actions,
          cumulative_lengths, total_length, calls, result>>

-----------------------------------------------------------------------------
(* Bounds *)

MaxPoints == 3
MaxFrameStart == 1
MaxCurves == 3
MaxActions == 3

\* positions a motion path may hold: pairwise at integer distances 3, 4, 5
PointSet == {<<0, 0, 0>>, <<3, 0, 0>>, <<3, 0, 4>>}
\* what the host's spline.calc_length() may return
CurveLengths == {2, 5}
BakeLocations == {"TAILS", "HEADS"}
\* the type of bpy.context.active_object (an active object exists)
ObjectTypes == {"ARMATURE", "MESH"}
Axes == {"POS_X", "POS_Y", "POS_Z", "NEG_X", "NEG_Y", "NEG_Z"}

-----------------------------------------------------------------------------
(* Exact rational arithmetic for the float values of keyframes *)

Abs(x) == IF x < 0 THEN -x ELSE x

RECURSIVE GCD(_, _)
GCD(a, b) == IF b = 0 THEN a ELSE GCD(b, a % b)

\* n / d with d > 0, in lowest terms
Rat(n, d) == LET g == GCD(Abs(n), d) IN [n |-> n \div g, d |-> d \div g]

RatMul(a, b) == Rat(a.n * b.n, a.d * b.d)
RatDivInt(a, k) == Rat(a.n, a.d * k)
RatNeg(a) == [n |-> 0 - a.n, d |-> a.d]
RatLeq(a, b) == a.n * b.d <= b.n * a.d
Zero == Rat(0, 1)
Hundred == Rat(100, 1)

-----------------------------------------------------------------------------
(* mathutils.Vector *)

VecSub(a, b) == <<a[1] - b[1], a[2] - b[2], a[3] - b[3]>>

ISqrt(n) == CHOOSE r \in 0..n : r * r = n

VecLength(v) == ISqrt(v[1] * v[1] + v[2] * v[2] + v[3] * v[3])

-----------------------------------------------------------------------------
(* compute_motion_path_cumulative_length *)

\* the state of the loop after iterations 0 .. i-1 (i = 0: before the loop)
RECURSIVE CumulativeLoop(_, _)
CumulativeLoop(points, i) ==
    IF i = 0
    THEN [cumulative_lengths |-> [k \in 1..Len(points) |-> 0], total_length |-> 0]
    ELSE LET prev == CumulativeLoop(points, i - 1)
             point == points[i]
             next_point == points[i + 1]
             total == prev.total_length + VecLength(VecSub(next_point, point))
         IN  [cumulative_lengths |-> [prev.cumulative_lengths EXCEPT ![i + 1] = total],
              total_length |-> total]

\* the loop running over range(n_points - 2): the last segment is left out
ComputeWithoutLastSegment(mp) ==
    LET n_points == Len(mp.points)
    IN  IF n_points = 0
        THEN [cumulative_lengths |-> <<>>, total_length |-> 0]
        ELSE IF n_points = 1 THEN CumulativeLoop(mp.points, 0)
        ELSE CumulativeLoop(mp.points, n_points - 2)

compute_motion_path_cumulative_length(mp) ==
    LET n_points == Len(mp.points)
    IN  IF n_points = 0
        THEN [cumulative_lengths |-> <<>>, total_length |-> 0]
        ELSE CumulativeLoop(mp.points, n_points - 1)

-----------------------------------------------------------------------------
(* Host data *)

NoAnimationData == [present |-> FALSE, action |-> 0]    \* animation_data is None
NoMotionPath == [present |-> FALSE, frame_start |-> 0, points |-> <<>>]
NoResult == [op |-> "none", status |-> "none", level |-> "none", message |-> <<>>]

BoneName == "Bone"

\* FCurveKeyframePoints.add(count): count new keyframes at co (0, 0)
DefaultKeyframe == [co |-> <<0, Zero>>, interpolation |-> "BEZIER"]

\* ActionFCurves.find(data_path): index of the first such fcurve, 0 for None
FindFCurve(action, data_path) ==
    IF \E k \in 1..Len(action.fcurves) : action.fcurves[k].data_path = data_path
    THEN CHOOSE k \in 1..Len(action.fcurves) :
            /\ action.fcurves[k].data_path = data_path
            /\ \A j \in 1..(k - 1) : action.fcurves[j].data_path # data_path
    ELSE 0

-----------------------------------------------------------------------------
(* create_curve_from_motion_path *)

\* the progress divided by the number of segments instead of the total length
EvalTimeKeyframesPerSegment(mp, cl) ==
    LET n_points == Len(mp.points)
    IN  [point_idx \in 1..n_points |->
            IF point_idx = 1
            THEN [co |-> <<mp.frame_start, Zero>>, interpolation |-> "LINEAR"]
            ELSE LET segment_idx == point_idx - 2
                     progress == Rat(cl.cumulative_lengths[segment_idx + 1], n_points - 1)
                 IN  [co |-> <<segment_idx + 1, RatMul(progress, Hundred)>>,
                      interpolation |-> "LINEAR"]]

\* lines 55-66: the keyframes of the eval_time fcurve once the loop has run
\* (total_length # 0 or no segment)
EvalTimeKeyframes(mp, cl) ==
    LET n_points == Len(mp.points)
    IN  [point_idx \in 1..n_points |->
            IF point_idx = 1
            THEN [co |-> <<mp.frame_start, Zero>>, interpolation |-> "LINEAR"]
            ELSE LET segment_idx == point_idx - 2
                     progress == Rat(cl.cumulative_lengths[segment_idx + 1], cl.total_length)
                 IN  [co |-> <<segment_idx + 1, RatMul(progress, Hundred)>>,
                      interpolation |-> "LINEAR"]]

\* lines 55-60: the keyframes when the first division raises ZeroDivisionError
EvalTimeKeyframesAtRaise(mp) ==
    [point_idx \in 1..Len(mp.points) |->
        IF point_idx = 1
        THEN [co |-> <<mp.frame_start, Zero>>, interpolation |-> "LINEAR"]
        ELSE DefaultKeyframe]

\* cumulative_lengths[segment_idx] / total_length raises in the first iteration
DivisionRaises(mp, cl) == Len(mp.points) - 1 >= 1 /\ cl.total_length = 0

\* the whole call on the data (cs, os, as); name is a sequence of name parts
create_curve_from_motion_path(cs, os, as, mp, name) ==
    LET n_points == Len(mp.points)
        spline == [type |-> "BEZIER",
                   bezier_points |-> [i \in 1..n_points |->
                        [co |-> mp.points[i],
                         handle_right_type |-> "AUTO",
                         handle_left_type |-> "AUTO"]]]
        cl == compute_motion_path_cumulative_length(mp)
        raised == DivisionRaises(mp, cl)
        action == [name |-> name \o <<"_Animation">>,
                   fcurves |-> <<[data_path |-> "eval_time", array_index |-> 0,
                                  keyframe_points |->
                                      IF raised THEN EvalTimeKeyframesAtRaise(mp)
                                      ELSE EvalTimeKeyframes(mp, cl)]>>]
        path == [name |-> name \o <<"_path">>, dimensions |-> "3D",
                 splines |-> <<spline>>,
                 animation_data |->
                     IF raised THEN NoAnimationData
                     ELSE [present |-> TRUE, action |-> Len(as) + 1]]
        curve == [name |-> name, type |-> "CURVE", data |-> Len(cs) + 1,
                  animation_data |-> NoAnimationData]
    IN  [curves |-> Append(cs, path),
         objects |-> Append(os, curve),
         actions |-> Append(as, action),
         cumulative_lengths |-> cl.cumulative_lengths,
         total_length |-> cl.total_length,
         raised |-> raised]

-----------------------------------------------------------------------------
(* POSE_OT_motion_path_to_curve.execute *)

\* bpy.ops.pose.paths_calculate: the host samples the bone's animation
PathsCalculate == [present |-> TRUE, frame_start |-> bone_animation.frame_start,
                   points |-> bone_animation.points]

PoseCancelled(message) ==
    [motion_path |-> motion_path, curves |-> curves, objects |-> objects,
     actions |-> actions, cumulative_lengths |-> cumulative_lengths,
     total_length |-> total_length, calls |-> <<>>,
     result |-> [op |-> "pose.motion_path_to_curve", status |-> "CANCELLED",
                 level |-> "ERROR", message |-> <<message>>]]

\* lines 102-118: the run once the armature and the bone are found
PoseConvert(bake_location) ==
    LET clear_first == IF motion_path.present
                       THEN <<<<"pose.paths_clear">>>> ELSE <<>>
        mp == PathsCalculate
        made == create_curve_from_motion_path(curves, objects, actions, mp,
                                              <<BoneName, "_curve">>)
        upto_create == clear_first \o
            <<<<"pose.paths_calculate", bake_location>>,
              <<"create_curve_from_motion_path">>>>
    IN  [motion_path |-> IF made.raised THEN mp ELSE NoMotionPath,
         curves |-> made.curves, objects |-> made.objects,
         actions |-> made.actions,
         cumulative_lengths |-> made.cumulative_lengths,
         total_length |-> made.total_length,
         calls |-> IF made.raised THEN upto_create
                   ELSE Append(upto_create, <<"pose.paths_clear">>),
         result |-> IF made.raised
             THEN [op |-> "pose.motion_path_to_curve",
                   status |-> "ZeroDivisionError",
                   level |-> "none", message |-> <<>>]
             ELSE [op |-> "pose.motion_path_to_curve", status |-> "FINISHED",
                   level |-> "INFO",
                   message |-> <<"Motion path converted to curve.">>]]

\* the motion path cleared before the bone is looked up
PoseRunClearsBeforeBoneCheck(active_type, has_bone, bake_location) ==
    IF active_type # "ARMATURE"
    THEN PoseCancelled("Active object is not an armature.")
    ELSE IF ~has_bone
    THEN [PoseCancelled("No bone selected.") EXCEPT
              !.motion_path = NoMotionPath,
              !.calls = IF motion_path.present THEN <<<<"pose.paths_clear">>>> ELSE <<>>]
    ELSE PoseConvert(bake_location)

\* the whole handler: the data and outcome it leaves
PoseRun(active_type, has_bone, bake_location) ==
    IF active_type # "ARMATURE"
    THEN PoseCancelled("Active object is not an armature.")
    ELSE IF ~has_bone
    THEN PoseCancelled("No bone selected.")
    ELSE PoseConvert(bake_location)

\* one run of the operator with the given context and property
PoseStep(active_type, has_bone, bake_location) ==
    LET run == PoseRun(active_type, has_bone, bake_location)
    IN  /\ result' = run.result
        /\ calls' = run.calls
        /\ motion_path' = run.motion_path
        /\ curves' = run.curves
        /\ objects' = run.objects
        /\ actions' = run.actions
        /\ cumulative_lengths' = run.cumulative_lengths
        /\ total_length' = run.total_length
        /\ UNCHANGED bone_animation

PoseExecute ==
    /\ Len(curves) < MaxCurves
    /\ Len(actions) < MaxActions
    /\ \E active_type \in ObjectTypes, has_bone \in BOOLEAN,
          bake_location \in BakeLocations :
          PoseStep(active_type, has_bone, bake_location)

-----------------------------------------------------------------------------
(* OBJECT_OT_transfer_curve_animation.execute *)

AxisIndex(axis) ==
    CASE axis = "POS_X" -> 0
      [] axis = "POS_Y" -> 1
      [] axis = "POS_Z" -> 2
      [] axis = "NEG_X" -> 0
      [] axis = "NEG_Y" -> 1
      [] axis = "NEG_Z" -> 2

\* self.axis.startswith("NEG_")
StartsWithNeg(axis) == axis \in {"NEG_X", "NEG_Y", "NEG_Z"}

\* lines 154-160: the last selected object of type CURVE (0 for None)
RECURSIVE FindCurve(_, _)
FindCurve(selected_objects, k) ==
    IF k = 0 THEN 0
    ELSE IF objects[selected_objects[k]].type = "CURVE" THEN selected_objects[k]
    ELSE FindCurve(selected_objects, k - 1)

\* lines 154-160: the last selected object of another type (0 for None)
RECURSIVE FindTarget(_, _)
FindTarget(selected_objects, k) ==
    IF k = 0 THEN 0
    ELSE IF objects[selected_objects[k]].type # "CURVE" THEN selected_objects[k]
    ELSE FindTarget(selected_objects, k - 1)

\* the position negated on every axis
LocationKeyframesAlwaysNegated(eval_keyframes, axis, curve_length) ==
    [k \in 1..Len(eval_keyframes) |->
        LET i == k - 1
            progress == RatDivInt(eval_keyframes[k].co[2], 100)
            pos == RatMul(progress, Rat(curve_length, 1))
        IN  [co |-> <<i, RatNeg(pos)>>, interpolation |-> "LINEAR"]]

\* lines 197-207: the keyframes of the location fcurve
LocationKeyframes(eval_keyframes, axis, curve_length) ==
    [k \in 1..Len(eval_keyframes) |->
        LET i == k - 1
            progress == RatDivInt(eval_keyframes[k].co[2], 100)
            pos == RatMul(progress, Rat(curve_length, 1))
        IN  [co |-> <<i, IF StartsWithNeg(axis) THEN RatNeg(pos) ELSE pos>>,
             interpolation |-> "LINEAR"]]

TransferCancelled(message) ==
    [objects |-> objects, actions |-> actions,
     result |-> [op |-> "object.transfer_curve_animation", status |-> "CANCELLED",
                 level |-> "ERROR", message |-> <<message>>]]

\* lines 172-178: the AttributeError of curve.data.animation_data.action.fcurves
EvalTimeLookupRaises(curve) ==
    LET animation_data == curves[objects[curve].data].animation_data
    IN  ~animation_data.present \/ animation_data.action = 0

\* lines 170-212: the run once the curve and the target are found
TransferApply(curve, target_obj, axis, curve_length) ==
    IF EvalTimeLookupRaises(curve)
    THEN TransferCancelled("Expected curve to have eval_time fcurve")
    ELSE LET source == actions[curves[objects[curve].data].animation_data.action]
             fcurve_eval_time == FindFCurve(source, "eval_time")
             raised == fcurve_eval_time = 0
             fcurve_location ==
                 [data_path |-> "location", array_index |-> AxisIndex(axis),
                  keyframe_points |->
                      IF raised THEN <<>>
                      ELSE LocationKeyframes(
                               source.fcurves[fcurve_eval_time].keyframe_points,
                               axis, curve_length)]
             action == [name |-> objects[target_obj].name \o <<"_follow_curve_animation">>,
                        fcurves |-> <<fcurve_location>>]
         IN  [objects |-> [objects EXCEPT ![target_obj].animation_data =
                               [present |-> TRUE, action |-> Len(actions) + 1]],
              actions |-> Append(actions, action),
              result |-> IF raised
                  THEN [op |-> "object.transfer_curve_animation",
                        status |-> "AttributeError", level |-> "none", message |-> <<>>]
                  ELSE [op |-> "object.transfer_curve_animation", status |-> "FINISHED",
                        level |-> "INFO",
                        message |-> <<"Added animation to ">> \o objects[target_obj].name
                                    \o <<" along ", axis, " axis">>]]

\* the selection tested with "< 2" instead of "!= 2"
TransferRunAcceptsLargerSelection(selected_objects, axis, curve_length) ==
    IF Len(selected_objects) < 2
    THEN TransferCancelled("Please select exactly 2 objects (curve and target object)")
    ELSE LET curve == FindCurve(selected_objects, Len(selected_objects))
             target_obj == FindTarget(selected_objects, Len(selected_objects))
         IN  IF curve = 0 \/ target_obj = 0
             THEN TransferCancelled("Please select a curve and a target object")
             ELSE IF Len(curves[objects[curve].data].splines) # 1
             THEN TransferCancelled("Expected curve to have exactly one spline")
             ELSE TransferApply(curve, target_obj, axis, curve_length)

\* the whole handler: the data and outcome it leaves
TransferRun(selected_objects, axis, curve_length) ==
    IF Len(selected_objects) # 2
    THEN TransferCancelled("Please select exactly 2 objects (curve and target object)")
    ELSE LET curve == FindCurve(selected_objects, Len(selected_objects))
             target_obj == FindTarget(selected_objects, Len(selected_objects))
         IN  IF curve = 0 \/ target_obj = 0
             THEN TransferCancelled("Please select a curve and a target object")
             ELSE IF Len(curves[objects[curve].data].splines) # 1
             THEN TransferCancelled("Expected curve to have exactly one spline")
             ELSE TransferApply(curve, target_obj, axis, curve_length)

\* context.selected_objects: up to three of the scene's objects, in scene order
Selections ==
    LET ids == 1..Len(objects)
    IN  {<<>>} \cup {<<a>> : a \in ids}
        \cup {s \in ids \X ids : s[1] < s[2]}
        \cup {s \in ids \X ids \X ids : s[1] < s[2] /\ s[2] < s[3]}

\* one run of the operator with the given selection, axis and spline length
TransferStep(selected_objects, axis, curve_length) ==
    LET run == TransferRun(selected_objects, axis, curve_length)
    IN  /\ result' = run.result
        /\ objects' = run.objects
        /\ actions' = run.actions
        /\ UNCHANGED <<bone_animation, motion_path, curves, cumulative_lengths,
                       total_length, calls>>

TransferExecute ==
    /\ Len(actions) < MaxActions
    /\ \E selected_objects \in Selections, axis \in Axes, curve_length \in CurveLengths :
          TransferStep(selected_objects, axis, curve_length)

-----------------------------------------------------------------------------
(* Specifications *)

RECURSIVE SeqsUpTo(_, _)
SeqsUpTo(S, n) ==
    IF n = 0 THEN {<<>>}
    ELSE LET shorter == SeqsUpTo(S, n - 1)
         IN  shorter \cup {Append(s, x) : s \in {t \in shorter : Len(t) = n - 1}, x \in S}

\* the sampled positions of the bone: at least one frame
BoneAnimations ==
    {[frame_start |-> f, points |-> p] :
        f \in 0..MaxFrameStart, p \in (SeqsUpTo(PointSet, MaxPoints) \ {<<>>})}

\* an armature scene with nothing generated yet
InitPose ==
    /\ bone_animation \in BoneAnimations
    /\ motion_path \in {NoMotionPath,
                        [present |-> TRUE, frame_start |-> bone_animation.frame_start,
                         points |-> bone_animation.points]}
    /\ curves = <<>>
    /\ objects = <<[name |-> <<"Armature">>, type |-> "ARMATURE", data |-> 0,
                    animation_data |-> NoAnimationData]>>
    /\ actions = <<>>
    /\ cumulative_lengths = <<>>
    /\ total_length = 0
    /\ calls = <<>>
    /\ result = NoResult

SpecPose == InitPose /\ [][PoseExecute]_vars

\* the curve the scene holds besides the generated ones, with the action of
\* its data: two splines; no animation data; no action; an action without an
\* eval_time fcurve; a hand-keyed eval_time fcurve
Fixtures ==
    LET spline == [type |-> "BEZIER",
                   bezier_points |-> <<[co |-> <<0, 0, 0>>, handle_right_type |-> "AUTO",
                                        handle_left_type |-> "AUTO"]>>]
        base == [name |-> <<"BezierCurve">>, dimensions |-> "3D"]
        duration == [data_path |-> "path_duration", array_index |-> 0,
                     keyframe_points |-> <<[co |-> <<1, Hundred>>,
                                            interpolation |-> "BEZIER"]>>]
        eval_time == [data_path |-> "eval_time", array_index |-> 0,
                      keyframe_points |->
                          <<[co |-> <<10, Zero>>, interpolation |-> "BEZIER"],
                            [co |-> <<20, Rat(50, 1)>>, interpolation |-> "BEZIER"],
                            [co |-> <<40, Hundred>>, interpolation |-> "BEZIER"]>>]
        plain == [name |-> <<"BezierCurveAction">>, fcurves |-> <<duration>>]
        keyed == [name |-> <<"BezierCurveAction">>, fcurves |-> <<duration, eval_time>>]
    IN  {[curve |-> base @@ [splines |-> <<spline, spline>>,
                             animation_data |-> NoAnimationData],
          action |-> plain],
         [curve |-> base @@ [splines |-> <<spline>>, animation_data |-> NoAnimationData],
          action |-> plain],
         [curve |-> base @@ [splines |-> <<spline>>,
                             animation_data |-> [present |-> TRUE, action |-> 0]],
          action |-> plain],
         [curve |-> base @@ [splines |-> <<spline>>,
                             animation_data |-> [present |-> TRUE, action |-> 1]],
          action |-> plain],
         [curve |-> base @@ [splines |-> <<spline>>,
                             animation_data |-> [present |-> TRUE, action |-> 1]],
          action |-> keyed]}

SceneAnimations ==
    {[frame_start |-> 1, points |-> <<<<0, 0, 0>>, <<3, 0, 0>>, <<3, 0, 4>>>>],
     [frame_start |-> 0, points |-> <<<<3, 0, 4>>, <<0, 0, 0>>>>]}

\* a scene with a mesh, an armature and a curve, after Generate Motion Curve
\* has run once on the armature's bone
Init ==
    /\ bone_animation \in SceneAnimations
    /\ motion_path = NoMotionPath
    /\ \E fixture \in Fixtures :
          LET os == <<[name |-> <<"Cube">>, type |-> "MESH", data |-> 0,
                       animation_data |-> NoAnimationData],
                      [name |-> <<"Armature">>, type |-> "ARMATURE", data |-> 0,
                       animation_data |-> NoAnimationData],
                      [name |-> <<"BezierCurve">>, type |-> "CURVE", data |-> 1,
                       animation_data |-> NoAnimationData]>>
              made == create_curve_from_motion_path(<<fixture.curve>>, os, <<fixture.action>>,
                          [present |-> TRUE, frame_start |-> bone_animation.frame_start,
                           points |-> bone_animation.points],
                          <<BoneName, "_curve">>)
          IN  /\ curves = made.curves
              /\ objects = made.objects
              /\ actions = made.actions
              /\ cumulative_lengths = made.cumulative_lengths
              /\ total_length = made.total_length
    /\ calls = <<<<"pose.paths_calculate", "TAILS">>,
                 <<"create_curve_from_motion_path">>, <<"pose.paths_clear">>>>
    /\ result = [op |-> "pose.motion_path_to_curve", status |-> "FINISHED",
                 level |-> "INFO", message |-> <<"Motion path converted to curve.">>]

Next == PoseExecute \/ TransferExecute

Spec == Init /\ [][Next]_vars

-----------------------------------------------------------------------------
(* Properties *)

\* |a - b|, stated on its own
Distance(a, b) ==
    LET sq == (a[1] - b[1]) * (a[1] - b[1]) + (a[2] - b[2]) * (a[2] - b[2])
              + (a[3] - b[3]) * (a[3] - b[3])
    IN  CHOOSE r \in 0..sq : r * r = sq

PoseOp == "pose.motion_path_to_curve"
TransferOp == "object.transfer_curve_animation"

\* the last POSE_OT run got as far as create_curve_from_motion_path
CreateCurveCalled ==
    \E k \in 1..Len(calls) : calls[k] = <<"create_curve_from_motion_path">>

\* the eval_time keyframes written by the last create_curve_from_motion_path
\* call, when that call was the last to create an action
LastKeyframes == actions[Len(actions)].fcurves[1].keyframe_points

GeneratedAction(a) == a.name[Len(a.name)] = "_Animation"

\* C1: after compute_motion_path_cumulative_length ran on N >= 1 points, the
\* list has length N, starts at 0, each entry adds the distance to the previous
\* point, and the total is the last entry.
C1_CumulativeLengths ==
    Len(curves) > 0 =>
        LET P == bone_animation.points
            N == Len(P)
        IN  /\ Len(cumulative_lengths) = N
            /\ cumulative_lengths[1] = 0
            /\ \A i \in 2..N :
                  cumulative_lengths[i] = cumulative_lengths[i - 1] + Distance(P[i], P[i - 1])
            /\ total_length = cumulative_lengths[N]

C1_Witness ==
    /\ CreateCurveCalled
    /\ Len(cumulative_lengths) = 3
    /\ 0 < cumulative_lengths[2]
    /\ cumulative_lengths[2] < cumulative_lengths[3]
    /\ total_length = cumulative_lengths[3]

\* C2: when the total length is > 0, the eval_time keyframe of every point i
\* has the value cumulative[i] / total * 100 (0 for the first point, 100 for
\* the last).
C2_ProgressOfEveryPoint ==
    (CreateCurveCalled /\ result.status = "FINISHED" /\ total_length > 0) =>
        /\ Len(LastKeyframes) = Len(bone_animation.points)
        /\ \A i \in 1..Len(LastKeyframes) :
              LastKeyframes[i].co[2] = Rat(100 * cumulative_lengths[i], total_length)

\* C3: when the total length is 0, create_curve_from_motion_path completes
\* without raising and every eval_time keyframe it wrote has the value 0.
C3_ZeroLengthCompletes ==
    (CreateCurveCalled /\ total_length = 0) =>
        /\ result.status = "FINISHED"
        /\ \A i \in 1..Len(LastKeyframes) : LastKeyframes[i].co[2] = Zero

\* C4: every eval_time keyframe value written by create_curve_from_motion_path
\* lies in [0, 100].
C4_ProgressInRange ==
    \A a \in 1..Len(actions) :
        GeneratedAction(actions[a]) =>
            \A f \in 1..Len(actions[a].fcurves) :
                \A k \in 1..Len(actions[a].fcurves[f].keyframe_points) :
                    LET value == actions[a].fcurves[f].keyframe_points[k].co[2]
                    IN  RatLeq(Zero, value) /\ RatLeq(value, Hundred)

C4_Witness ==
    /\ CreateCurveCalled
    /\ result.status = "FINISHED"
    /\ \E k \in 1..Len(LastKeyframes) :
          /\ LastKeyframes[k].co[2] # Zero
          /\ LastKeyframes[k].co[2] # Hundred
          /\ RatLeq(LastKeyframes[k].co[2], Hundred)

\* C9: keyframe i of the eval_time fcurve written by
\* create_curve_from_motion_path is at frame frame_start + i, so the frames
\* increase strictly with the index.
C9_OneKeyframePerFrame ==
    (CreateCurveCalled /\ result.status = "FINISHED") =>
        /\ \A i \in 1..Len(LastKeyframes) :
              LastKeyframes[i].co[1] = bone_animation.frame_start + (i - 1)
        /\ \A i \in 1..(Len(LastKeyframes) - 1) :
              LastKeyframes[i].co[1] < LastKeyframes[i + 1].co[1]

SelectedCurves(sel) == {sel[k] : k \in {j \in 1..Len(sel) : objects[sel[j]].type = "CURVE"}}
SelectedOthers(sel) == {sel[k] : k \in {j \in 1..Len(sel) : objects[sel[j]].type # "CURVE"}}
TheCurve(sel) == CHOOSE o \in SelectedCurves(sel) : TRUE
TheTarget(sel) == CHOOSE o \in SelectedOthers(sel) : TRUE

\* exactly two objects, one of them a curve, the other not
CurveAndTarget(sel) ==
    /\ Len(sel) = 2
    /\ Cardinality(SelectedCurves(sel)) = 1
    /\ Cardinality(SelectedOthers(sel)) = 1

OneSpline(sel) == Len(curves[objects[TheCurve(sel)].data].splines) = 1

\* the curve data of object o has an action with an eval_time fcurve
HasEvalTime(o) ==
    LET animation_data == curves[objects[o].data].animation_data
    IN  /\ animation_data.present
        /\ animation_data.action # 0
        /\ \E f \in 1..Len(actions[animation_data.action].fcurves) :
              actions[animation_data.action].fcurves[f].data_path = "eval_time"

\* the keyframes of the eval_time fcurve of object o's curve data
EvalKeyframesOf(o) ==
    LET action == actions[curves[objects[o].data].animation_data.action]
        f == CHOOSE k \in 1..Len(action.fcurves) : action.fcurves[k].data_path = "eval_time"
    IN  action.fcurves[f].keyframe_points

LocationFCurves(action) ==
    {f \in 1..Len(action.fcurves) : action.fcurves[f].data_path = "location"}

ExpectedIndex(axis) ==
    IF axis \in {"POS_X", "NEG_X"} THEN 0
    ELSE IF axis \in {"POS_Y", "NEG_Y"} THEN 1
    ELSE 2

\* (value / 100) * curve_length, negated for the NEG_ axes
ExpectedPosition(value, axis, curve_length) ==
    LET pos == Rat(value.n * curve_length, value.d * 100)
    IN  IF axis \in {"NEG_X", "NEG_Y", "NEG_Z"} THEN Rat(0 - pos.n, pos.d) ELSE pos

\* C5: a FINISHED transfer gives the target a new action with exactly one
\* location fcurve, on index 0/1/2 for X/Y/Z, with as many keyframes as the
\* curve's eval_time fcurve, keyframe i holding
\* (eval_time value i / 100) * curve_length, negated exactly for NEG_ axes.
C5_TransferredKeyframes ==
    [][(result'.op = TransferOp /\ result'.status = "FINISHED") =>
        \A sel \in Selections, axis \in Axes, curve_length \in CurveLengths :
            TransferStep(sel, axis, curve_length) =>
                /\ CurveAndTarget(sel)
                /\ Len(actions') = Len(actions) + 1
                /\ objects'[TheTarget(sel)].animation_data =
                       [present |-> TRUE, action |-> Len(actions')]
                /\ LET new == actions'[Len(actions')]
                       eval == EvalKeyframesOf(TheCurve(sel))
                   IN  /\ Len(new.fcurves) = 1
                       /\ LocationFCurves(new) = {1}
                       /\ new.fcurves[1].array_index = ExpectedIndex(axis)
                       /\ Len(new.fcurves[1].keyframe_points) = Len(eval)
                       /\ \A i \in 1..Len(eval) :
                              new.fcurves[1].keyframe_points[i].co[2] =
                                  ExpectedPosition(eval[i].co[2], axis, curve_length)]_vars

C5_Witness ==
    /\ result.op = TransferOp
    /\ result.status = "FINISHED"
    /\ result.message[Len(result.message) - 1] = "NEG_Y"
    /\ LET new == actions[Len(actions)]
       IN  /\ new.fcurves[1].data_path = "location"
           /\ new.fcurves[1].array_index = 1
           /\ \E k \in 1..Len(new.fcurves[1].keyframe_points) :
                  new.fcurves[1].keyframe_points[k].co[2].n < 0

\* C6: when the selected curve has no eval_time fcurve (no animation data, no
\* action, or an action without such an fcurve), the transfer reports
\* "Expected curve to have eval_time fcurve", returns CANCELLED and leaves the
\* target and the actions as they were.
C6_MissingEvalTimeCancels ==
    [][\A sel \in Selections :
          (CurveAndTarget(sel) /\ OneSpline(sel) /\ ~HasEvalTime(TheCurve(sel))) =>
              \A axis \in Axes, curve_length \in CurveLengths :
                  TransferStep(sel, axis, curve_length) =>
                      /\ result'.status = "CANCELLED"
                      /\ result'.message = <<"Expected curve to have eval_time fcurve">>
                      /\ UNCHANGED <<objects, actions>>]_vars

\* the selection passes the three checks of lines 147-168
Accepted(sel) == CurveAndTarget(sel) /\ OneSpline(sel)

\* C7: the transfer returns CANCELLED with an error report and changes no
\* data whenever the selection is not exactly two objects, or not one curve
\* plus one object of another type, or the curve has not exactly one spline;
\* it creates an action only when all three conditions hold.
C7_SelectionChecks ==
    [][LET rejected == /\ result'.status = "CANCELLED"
                       /\ result'.level = "ERROR"
                       /\ result'.message # <<>>
                       /\ UNCHANGED <<objects, actions>>
       IN  \A sel \in Selections :
               ~Accepted(sel) =>
                   \A axis \in Axes, curve_length \in CurveLengths :
                       rejected \/ ~TransferStep(sel, axis, curve_length)]_vars

C7_Witness ==
    /\ result.op = TransferOp
    /\ result.status = "CANCELLED"
    /\ result.message = <<"Expected curve to have exactly one spline">>
    /\ \E o \in 1..Len(objects) :
          /\ objects[o].type = "CURVE"
          /\ Len(curves[objects[o].data].splines) = 2

\* C10: after a FINISHED transfer, location keyframe i of the target is at the
\* frame of eval_time keyframe i of the curve.
C10_TimingPreserved ==
    [][(result'.op = TransferOp /\ result'.status = "FINISHED") =>
        \A sel \in Selections, axis \in Axes, curve_length \in CurveLengths :
            TransferStep(sel, axis, curve_length) =>
                LET new == actions'[Len(actions')]
                    eval == EvalKeyframesOf(TheCurve(sel))
                IN  \A i \in 1..Len(eval) :
                        new.fcurves[1].keyframe_points[i].co[1] = eval[i].co[1]]_vars

====
